---- MODULE Spec2Model ----
(***************************************************************************)
(* Model of src/worker.py: the weather notification worker.  main() checks *)
(* its settings, then loops forever: read the clock, decide whether the    *)
(* morning (09) or the evening (20) notification is due and not yet in     *)
(* sent_notifications, fetch the forecast, ask for a recommendation, build *)
(* the SMS, send it, record the key, prune the set, sleep 300 seconds.     *)
(*                                                                         *)
(* Time is counted in ticks of CHECK_INTERVAL_SECONDS (300 s) since 00:00  *)
(* of the day the process starts; the date is the day number.  A ledger    *)
(* key "YYYY-MM-DD-morning" is the pair <<day, "morning">>; strftime's     *)
(* date has a fixed width, so startswith(today_str) is equality of the     *)
(* day component.  A Python value that may be None is a sequence of length *)
(* 0 (None) or 1.  Daylight-saving shifts (03:00-04:00) touch neither      *)
(* trigger hour and are left out.  Line 21 of the file carries a stray     *)
(* token in the logging set-up; the model follows main() as written.       *)
(* The variables cyc and day only observe the run: cyc counts the calls of *)
(* the current cycle, day the deliveries and insertions made by cycles     *)
(* whose date is today_str; cyc.retry names the slot the previous cycle    *)
(* gave up when this cycle reads the same date and hour (kept until the    *)
(* fetch).                                                                 *)
(***************************************************************************)
EXTENDS Integers, Sequences, FiniteSets, TLC

\* ---------------------------------------------------------------- bounds
MaxDay == 2          \* calendar days the model follows
MaxCallTicks == 1    \* longest external call, in ticks of 300 s
CountCap == 2        \* the per-day observation counters saturate here
StallHours == 13     \* a wait in a call made without a timeout, in hours

\* ------------------------------------------------------ program constants
MORNING_SEND_HOUR == 9
EVENING_SEND_HOUR == 20
CHECK_INTERVAL_SECONDS == 300

SecondsPerHour == 60 * 60
HoursPerDay == 24
TicksPerHour == SecondsPerHour \div CHECK_INTERVAL_SECONDS
TicksPerDay == HoursPerDay * TicksPerHour
MaxClock == MaxDay * TicksPerDay - 1

\* requests.get(..., timeout=30), line 98: the fetch answers or gives up
\* within the tick bound
TimedTicks == 0 .. MaxCallTicks
\* generate_content (line 202) and messages.create (line 215) are called
\* without a timeout: the call may also keep the cycle waiting for hours
UntimedTicks == (0 .. MaxCallTicks) \cup {StallHours * TicksPerHour}

\* now.strftime("%Y-%m-%d") and now.hour of the clock reading
DateOf(t) == t \div TicksPerDay + 1
HourOf(t) == (t % TicksPerDay) \div TicksPerHour

Slots == {"morning", "evening"}

\* f"{today_str}-morning" / f"{today_str}-evening"
SlotKey(d, s) == <<d, s>>
\* variant: the prefix test never matches, so the prune empties the set
StartsWith_never(k, d) == FALSE
\* k.startswith(today_str)
StartsWith(k, d) == k[1] = d

\* ------------------------------------------------------------- settings
RequiredVars == {"GEMINI_API_KEY", "TWILIO_ACCOUNT_SID", "TWILIO_AUTH_TOKEN",
                 "TWILIO_FROM_NUMBER", "MY_PHONE_NUMBER"}
\* os.getenv gives None, an empty string or a non-empty string
EnvValues == {"None", "", "value"}
Missing(e) == {n \in RequiredVars : e[n] \in {"None", ""}}
\* variant: the last entry of required_vars is left out of the check
validate_env_vars_short(e) == Missing(e) \subseteq {"MY_PHONE_NUMBER"}
validate_env_vars(e) == Missing(e) = {}

\* ------------------------------------------------------- weather record
None == <<>>
Some(v) == <<v>>
NumericFields == {"temperature", "wind_speed", "wind_direction", "precipitation"}
\* every numeric field is None (absent, "NaN" or unparseable) or a float
FieldValues == {"None", "float"}
WeatherDicts == [NumericFields -> FieldValues]
\* fetch_weather_forecast returns the dict, or None on any exception
FetchOutcomes == {None} \cup {Some(w) : w \in WeatherDicts}
\* weather.get(f); on weather = None the attribute access raises
Get(w, f) == IF w = None THEN "raise" ELSE w[1][f]
\* an f-string with a float format spec raises TypeError on None
FormatFloatRaises(v) == v \in {"None", "raise"}

\* variant: whatever the fetch returned is passed on
UsableRecord_any(w) == TRUE
\* line 306: weather and weather.get("temperature") is not None
UsableRecord(w) == w # None /\ Get(w, "temperature") # "None"

\* generate_clothing_recommendation, lines 182-192: building the prompt
\* formats temp and wind with :.1f before the model is called
PromptRaises(w) ==
    \/ w = None
    \/ FormatFloatRaises(Get(w, "temperature"))
    \/ FormatFloatRaises(Get(w, "wind_speed"))
\* answers of gemini_model.generate_content: a text, a blank text, an error
GeminiOutcomes == {"text", "blank", "raise"}
\* the value generate_clothing_recommendation returns for an answer
RecommendationOf(o) == IF o = "text" THEN "text" ELSE IF o = "blank" THEN "" ELSE "None"
\* if recommendation:
Truthy(r) == r \notin {"None", ""}

\* format_weather_sms, lines 236-262: temp and wind are formatted with :.0f,
\* precipitation is defaulted to 0 and the wind direction to "tuntematon"
FormatRaises(w) ==
    \/ w = None
    \/ FormatFloatRaises(Get(w, "temperature"))
    \/ FormatFloatRaises(Get(w, "wind_speed"))

VARIABLES
    env,             \* the five settings read at import
    clock,           \* wall clock, ticks since 00:00 of the first day
    pc,              \* position of main()
    sent_notifications,
    today_str, current_hour,          \* locals set at the top of a cycle
    slot,            \* which branch of the if/elif the cycle took
    weather, recommendation, sms_message, send_ok,
    cyc,             \* observation: calls made in the current cycle
    day              \* observation: per-slot totals for the date today_str

vars == <<env, clock, pc, sent_notifications, today_str, current_hour, slot,
          weather, recommendation, sms_message, send_ok, cyc, day>>

CycleZero == [fetch |-> 0, transform |-> 0, gemini |-> 0, deliver |-> 0,
              insert |-> 0, error |-> FALSE, pruned |-> 0, sent |-> "none",
              retry |-> "none"]
DayZero == [delivered |-> [s \in Slots |-> 0], acked |-> [s \in Slots |-> 0],
            inserted |-> [s \in Slots |-> 0]]
Bump(n) == IF n < CountCap THEN n + 1 ELSE CountCap

Init ==
    /\ env \in [RequiredVars -> EnvValues]
    /\ clock = 0
    /\ pc = "start"
    /\ sent_notifications = {}
    /\ today_str = 0
    /\ current_hour = 0
    /\ slot = "none"
    /\ weather = None
    /\ recommendation = "None"
    /\ sms_message = "none"
    /\ send_ok = FALSE
    /\ cyc = CycleZero
    /\ day = DayZero

locals == <<slot, weather, recommendation, sms_message, send_ok>>

\* main, lines 269-273: a missing setting ends the process before the loop
ConfigExit ==
    /\ pc = "start"
    /\ ~validate_env_vars(env)
    /\ pc' = "exited"
    /\ UNCHANGED <<env, clock, sent_notifications, today_str, current_hour,
                   locals, cyc, day>>

\* main, lines 275-286: clients are built, the ledger starts empty; the
\* process may have been started at any time of the first day
EnterLoop ==
    /\ pc = "start"
    /\ validate_env_vars(env)
    /\ \E t \in 0 .. TicksPerDay - 1 : clock' = t
    /\ sent_notifications' = {}
    /\ pc' = "now"
    /\ UNCHANGED <<env, today_str, current_hour, locals, cyc, day>>

\* observation: the cycle that just ended began a slot's dispatch and gave
\* it up at the fetch (lines 319/341) or through an error (line 353)
Abandoned ==
    /\ slot \in Slots
    /\ cyc.fetch >= 1
    /\ (weather = None \/ Get(weather, "temperature") = "None" \/ cyc.error)

\* lines 290-297: now, today_str, current_hour and the two keys.  The
\* locals of the previous cycle are dead here (each is assigned before it
\* is read), so they are reset together with the observation counters.
ReadNow ==
    /\ pc = "now"
    /\ today_str' = DateOf(clock)
    /\ current_hour' = HourOf(clock)
    /\ slot' = "none"
    /\ weather' = None
    /\ recommendation' = "None"
    /\ sms_message' = "none"
    /\ send_ok' = FALSE
    /\ cyc' = [CycleZero EXCEPT !.retry =
                 IF Abandoned /\ DateOf(clock) = today_str
                              /\ HourOf(clock) = current_hour
                 THEN slot ELSE "none"]
    /\ day' = IF DateOf(clock) = today_str THEN day ELSE DayZero
    /\ pc' = "eval"
    /\ UNCHANGED <<env, clock, sent_notifications>>

\* the conditions of lines 300 and 322
MorningDue == current_hour = MORNING_SEND_HOUR
    /\ SlotKey(today_str, "morning") \notin sent_notifications
\* variant: the evening branch does not consult the ledger
EveningDue_unchecked == current_hour = EVENING_SEND_HOUR
EveningDue == current_hour = EVENING_SEND_HOUR
    /\ SlotKey(today_str, "evening") \notin sent_notifications

\* lines 300, 322, 343: if / elif / else
Evaluate ==
    /\ pc = "eval"
    /\ IF MorningDue THEN slot' = "morning" /\ pc' = "fetch"
       ELSE IF EveningDue THEN slot' = "evening" /\ pc' = "fetch"
       ELSE slot' = "none" /\ pc' = "prune"
    /\ UNCHANGED <<env, clock, sent_notifications, today_str, current_hour,
                   weather, recommendation, sms_message, send_ok, cyc, day>>

\* lines 304/326, then the test of lines 306/328: fetch_weather_forecast
\* catches every exception and returns None; a record without temperature
\* is handled like a failed fetch (lines 319/341)
Fetch ==
    /\ pc = "fetch"
    /\ \E o \in FetchOutcomes, dt \in TimedTicks :
          /\ clock + dt <= MaxClock
          /\ clock' = clock + dt
          /\ weather' = o
          /\ pc' = IF UsableRecord(o) THEN "transform" ELSE "prune"
    /\ cyc' = [cyc EXCEPT !.fetch = @ + 1, !.retry = "none"]
    /\ UNCHANGED <<env, sent_notifications, today_str, current_hour, slot,
                   recommendation, sms_message, send_ok, day>>

\* lines 307/329: generate_clothing_recommendation.  Its try block covers
\* the prompt formatting and the model call; any exception gives None.
Transform ==
    /\ pc = "transform"
    /\ IF PromptRaises(weather)
       THEN /\ recommendation' = "None"
            /\ cyc' = [cyc EXCEPT !.transform = @ + 1]
            /\ UNCHANGED clock
       ELSE \E o \in GeminiOutcomes, dt \in UntimedTicks :
            /\ clock + dt <= MaxClock
            /\ clock' = clock + dt
            /\ recommendation' = RecommendationOf(o)
            /\ cyc' = [cyc EXCEPT !.transform = @ + 1, !.gemini = @ + 1]
    /\ pc' = "format"
    /\ UNCHANGED <<env, sent_notifications, today_str, current_hour, slot,
                   weather, sms_message, send_ok, day>>

\* lines 309-310 and 314-315 (331-332, 336-337): format_weather_sms with
\* the recommendation or with the fixed fallback text; it has no try
\* block, so a formatting error leaves main's try at line 352
\* variant: the message is built but the send call is left out
Format_unsent ==
    /\ pc = "format"
    /\ IF FormatRaises(weather)
       THEN pc' = "except" /\ UNCHANGED sms_message
       ELSE /\ sms_message' = IF Truthy(recommendation) THEN "recommendation"
                                                        ELSE "fallback"
            /\ pc' = "mark"
    /\ UNCHANGED <<env, clock, sent_notifications, today_str, current_hour,
                   slot, weather, recommendation, send_ok, cyc, day>>

Format ==
    /\ pc = "format"
    /\ IF FormatRaises(weather)
       THEN pc' = "except" /\ UNCHANGED sms_message
       ELSE /\ sms_message' = IF Truthy(recommendation) THEN "recommendation"
                                                        ELSE "fallback"
            /\ pc' = "send"
    /\ UNCHANGED <<env, clock, sent_notifications, today_str, current_hour,
                   slot, weather, recommendation, send_ok, cyc, day>>

\* lines 311/316 (333/338): send_sms returns True, or False on any exception
Send ==
    /\ pc = "send"
    /\ \E ok \in BOOLEAN, dt \in UntimedTicks :
          /\ clock + dt <= MaxClock
          /\ clock' = clock + dt
          /\ send_ok' = ok
          /\ day' = [day EXCEPT !.delivered[slot] = Bump(@),
                                !.acked[slot] = IF ok THEN Bump(@) ELSE @]
    /\ cyc' = [cyc EXCEPT !.deliver = @ + 1, !.sent = sms_message]
    /\ pc' = "mark"
    /\ UNCHANGED <<env, sent_notifications, today_str, current_hour, slot,
                   weather, recommendation, sms_message>>

\* with a recommendation the key is added only if send_sms returned True
\* (lines 311-312, 333-334); on the fallback path it is added whatever
\* send_sms returned (lines 316-317, 338-339)
\* variant: only the fallback branch records the key
MarkCondition_fallback == ~Truthy(recommendation)
MarkCondition == IF Truthy(recommendation) THEN send_ok ELSE TRUE

\* variant: the key is never recorded
Mark_skipped ==
    /\ pc = "mark"
    /\ pc' = "prune"
    /\ UNCHANGED <<env, clock, sent_notifications, today_str, current_hour,
                   locals, cyc, day>>

\* variant: a failed send is tried again in the same cycle
Mark_retry ==
    /\ pc = "mark"
    /\ IF MarkCondition
       THEN /\ sent_notifications' =
                   sent_notifications \cup {SlotKey(today_str, slot)}
            /\ cyc' = [cyc EXCEPT !.insert = @ + 1]
            /\ day' = [day EXCEPT !.inserted[slot] = Bump(@)]
            /\ pc' = "prune"
       ELSE /\ pc' = "send"
            /\ UNCHANGED <<sent_notifications, cyc, day>>
    /\ UNCHANGED <<env, clock, today_str, current_hour, locals>>

\* variant: the mark covers every slot of the day
Mark_all ==
    /\ pc = "mark"
    /\ IF MarkCondition
       THEN /\ sent_notifications' =
                   sent_notifications \cup {SlotKey(today_str, s) : s \in Slots}
            /\ cyc' = [cyc EXCEPT !.insert = @ + 1]
            /\ day' = [day EXCEPT !.inserted[slot] = Bump(@)]
       ELSE UNCHANGED <<sent_notifications, cyc, day>>
    /\ pc' = "prune"
    /\ UNCHANGED <<env, clock, today_str, current_hour, locals>>

Mark ==
    /\ pc = "mark"
    /\ IF MarkCondition
       THEN /\ sent_notifications' =
                   sent_notifications \cup {SlotKey(today_str, slot)}
            /\ cyc' = [cyc EXCEPT !.insert = @ + 1]
            /\ day' = [day EXCEPT !.inserted[slot] = Bump(@)]
       ELSE UNCHANGED <<sent_notifications, cyc, day>>
    /\ pc' = "prune"
    /\ UNCHANGED <<env, clock, today_str, current_hour, locals>>

\* variant: the cycle ends without the clean-up
Prune_skipped ==
    /\ pc = "prune"
    /\ pc' = "sleep"
    /\ UNCHANGED <<env, clock, sent_notifications, today_str, current_hour,
                   locals, cyc, day>>

\* line 350: keep only the keys that start with today_str
Prune ==
    /\ pc = "prune"
    /\ sent_notifications' = {k \in sent_notifications : StartsWith(k, today_str)}
    /\ cyc' = [cyc EXCEPT !.pruned =
                 Cardinality({k \in sent_notifications : ~StartsWith(k, today_str)})]
    /\ pc' = "sleep"
    /\ UNCHANGED <<env, clock, today_str, current_hour, locals, day>>

\* variant: the error is not caught and ends main
Except_exits ==
    /\ pc = "except"
    /\ cyc' = [cyc EXCEPT !.error = TRUE]
    /\ pc' = "exited"
    /\ UNCHANGED <<env, clock, sent_notifications, today_str, current_hour,
                   locals, day>>

\* variant: the handler records the slot as done
Except_marks ==
    /\ pc = "except"
    /\ cyc' = [cyc EXCEPT !.error = TRUE]
    /\ sent_notifications' = sent_notifications \cup {SlotKey(today_str, slot)}
    /\ pc' = "sleep"
    /\ UNCHANGED <<env, clock, today_str, current_hour, locals, day>>

\* lines 352-353: except Exception at the loop boundary; line 350 is skipped
Except ==
    /\ pc = "except"
    /\ cyc' = [cyc EXCEPT !.error = TRUE]
    /\ pc' = "sleep"
    /\ UNCHANGED <<env, clock, sent_notifications, today_str, current_hour,
                   locals, day>>

\* lines 355-356: time.sleep(CHECK_INTERVAL_SECONDS), then the next cycle
Sleep ==
    /\ pc = "sleep"
    /\ clock + 1 <= MaxClock
    /\ clock' = clock + 1
    /\ pc' = "now"
    /\ UNCHANGED <<env, sent_notifications, today_str, current_hour, locals,
                   cyc, day>>

Next ==
    \/ ConfigExit
    \/ EnterLoop
    \/ ReadNow
    \/ Evaluate
    \/ Fetch
    \/ Transform
    \/ Format
    \/ Send
    \/ Mark
    \/ Prune
    \/ Except
    \/ Sleep

Spec == Init /\ [][Next]_vars

\* main is one sequential thread: whenever it has a next step it takes it
LiveSpec == Spec /\ WF_vars(Next)

\* the steps that are certain to complete: everything but the model call of
\* line 202 and the send of line 215, which wait for an answer with no
\* timeout (the fetch of line 98 has one)
TimedNext ==
    \/ ConfigExit
    \/ EnterLoop
    \/ ReadNow
    \/ Evaluate
    \/ Fetch
    \/ (Transform /\ PromptRaises(weather))
    \/ Format
    \/ Mark
    \/ Prune
    \/ Except
    \/ Sleep

\* the program when a collaborator may never answer
StallSpec == Spec /\ WF_vars(TimedNext)

CyclePcs == {"now", "eval", "fetch", "transform", "format", "send", "mark",
             "prune", "except"}
LoopPcs == CyclePcs \cup {"sleep"}

TypeOK ==
    /\ env \in [RequiredVars -> EnvValues]
    /\ clock \in 0 .. MaxClock
    /\ pc \in {"start", "exited"} \cup LoopPcs
    /\ sent_notifications \subseteq (1 .. MaxDay) \X Slots
    /\ today_str \in 0 .. MaxDay
    /\ current_hour \in 0 .. HoursPerDay - 1
    /\ slot \in Slots \cup {"none"}
    /\ weather \in FetchOutcomes
    /\ recommendation \in {"None", "", "text"}
    /\ sms_message \in {"none", "recommendation", "fallback"}
    /\ send_ok \in BOOLEAN

\* ------------------------------------------------------------ properties
\* the trigger hours as the specification states them
ClaimedHour(s) == IF s = "morning" THEN 9 ELSE 20
TodayKey(s) == <<today_str, s>>
CycleOver == pc = "sleep"

\* C1: for each (calendar day, slot) the delivery collaborator is called at
\* most once and the key is inserted at most once, over all cycles.
C1_AtMostOncePerDaySlot ==
    \A s \in Slots : day.delivered[s] <= 1 /\ day.inserted[s] <= 1

\* C2: after a cycle that made a delivery attempt for a slot, the slot's key
\* for the current date is in the ledger, whether or not the delivery
\* succeeded.
C2_AttemptAlwaysMarks ==
    (CycleOver /\ cyc.deliver >= 1) => TodayKey(slot) \in sent_notifications

\* C3: once the loop is entered it is never left, every cycle reaches the
\* sleep step whatever the calls return and whatever error is raised, and
\* the sleep is followed by the next cycle (while the modelled days last).
C3_LoopNeverEnds ==
    /\ [][(pc \in LoopPcs) => (pc' \in LoopPcs)]_vars
    /\ (pc \in CyclePcs) ~> (pc = "sleep")
    /\ (pc = "sleep" /\ clock < MaxClock) ~> (pc = "now")
\* a cycle whose processing raised an error has reached the sleep step
C3_Witness == pc = "sleep" /\ cyc.error /\ cyc.fetch = 1

\* C4: a cycle begins the dispatch of a slot (goes to its fetch) if and only
\* if the current hour is the slot's trigger hour and the key for the
\* current date and that slot is absent from the ledger; a fetch is never
\* begun from anywhere but this test.
C4_DispatchIffEligible ==
    /\ [][(pc = "eval") =>
            (\A s \in Slots :
               (pc' = "fetch" /\ slot' = s)
                  <=> (current_hour = ClaimedHour(s)
                       /\ TodayKey(s) \notin sent_notifications))]_vars
    /\ [][(pc' = "fetch" /\ pc # "fetch") => pc = "eval"]_vars
\* the evening dispatch has begun at hour 20
C4_Witness == pc = "fetch" /\ slot = "evening" /\ current_hour = 20 /\ cyc.fetch = 0

\* C5: once a slot's key for a date has been inserted, the key stays in the
\* ledger for as long as cycles run on that date, and no later cycle of that
\* date begins the slot's dispatch; the insertion itself happens only when
\* the key was absent.
C5_InsertedStaysIneligible ==
    /\ \A s \in Slots :
          day.inserted[s] >= 1 =>
             /\ TodayKey(s) \in sent_notifications
             /\ ~(slot = s /\ pc \in {"fetch", "transform", "format", "send", "mark"})
    /\ pc = "mark" => TodayKey(slot) \notin sent_notifications
\* a later cycle in the same trigger hour found the morning slot dispatched
C5_Witness ==
    /\ pc = "prune" /\ slot = "none" /\ current_hour = 9
    /\ day.inserted["morning"] = 1 /\ cyc.fetch = 0

\* C6: when the recommendation call fails in a dispatching cycle, a fallback
\* message is built and the delivery collaborator is called with it in the
\* same cycle.
C6_TransformFailureFallsBack ==
    (CycleOver /\ cyc.transform >= 1 /\ ~Truthy(recommendation))
       => (cyc.deliver >= 1 /\ cyc.sent = "fallback")

\* C7: when the fetch fails, the cycle makes no transform call and no
\* delivery call and raises no error, it goes on to the sleep step, and the
\* sleep is followed by the next cycle with the ledger as it was.
C7_FetchFailureSkipsCycle ==
    /\ []((cyc.fetch >= 1 /\ weather = None) =>
            /\ pc \in {"prune", "sleep", "now"}
            /\ cyc.transform = 0 /\ cyc.deliver = 0 /\ ~cyc.error)
    /\ [][(pc = "sleep" /\ cyc.fetch >= 1 /\ weather = None) =>
            (pc' = "now" /\ sent_notifications' = sent_notifications)]_vars
\* a cycle whose fetch failed is asleep
C7_Witness == pc = "sleep" /\ cyc.fetch = 1 /\ weather = None /\ slot = "morning"

\* C8: when the fetch returns a record with one or more numeric fields
\* absent, the cycle still delivers a message and marks the slot, without
\* treating the record as a failed fetch and without ending in an error.
C8_PartialRecordDelivered ==
    (CycleOver /\ cyc.fetch >= 1 /\ weather # None
       /\ \E f \in NumericFields : weather[1][f] = "None")
       => (cyc.deliver >= 1 /\ ~cyc.error /\ TodayKey(slot) \in sent_notifications)

\* C9: if one of the five required settings is absent at startup, the
\* process exits without entering the loop: no cycle runs and no fetch,
\* transform or delivery call is made.
C9_MissingSettingNeverLoops ==
    /\ []((\E n \in RequiredVars : env[n] = "None") =>
            /\ pc \in {"start", "exited"}
            /\ cyc = CycleZero /\ day = DayZero /\ sent_notifications = {})
    /\ [][(pc = "start" /\ \E n \in RequiredVars : env[n] = "None")
             => (pc' = "exited")]_vars
\* the process has exited with only the recipient number absent
C9_Witness ==
    /\ pc = "exited" /\ env["MY_PHONE_NUMBER"] = "None"
    /\ \A n \in RequiredVars \ {"MY_PHONE_NUMBER"} : env[n] = "value"

C11_OnlyTodayAfterEveryCycle ==
    CycleOver =>
       /\ \A k \in sent_notifications : k[1] = today_str
       /\ Cardinality(sent_notifications) <= Cardinality(Slots)

\* C12: the slots are independent.  A key enters the ledger only as the key
\* of the slot the cycle is dispatching, for the cycle's date; a key of the
\* cycle's date is never removed; and whether a slot's dispatch begins is
\* decided by the hour, the date and that slot's own key alone.
AllKeys == (1 .. MaxDay) \X Slots
C12_SlotsIndependent ==
    /\ [][\A k \in AllKeys :
            /\ (k \in sent_notifications' /\ k \notin sent_notifications)
                  => (pc = "mark" /\ k = <<today_str, slot>>)
            /\ (k \in sent_notifications /\ k \notin sent_notifications')
                  => (k[1] # today_str)]_vars
    /\ [][(pc = "eval") =>
            (\A s \in Slots :
               (current_hour = ClaimedHour(s) /\ TodayKey(s) \notin sent_notifications)
                  => (pc' = "fetch" /\ slot' = s))]_vars
\* the evening slot was dispatched with the morning key of the day in place
C12_Witness ==
    /\ pc = "prune" /\ slot = "evening" /\ cyc.insert = 1
    /\ sent_notifications = {<<today_str, "morning">>, <<today_str, "evening">>}

\* C13: with the 300-second poll interval, every trigger hour of every day
\* is observed by at least one cycle: between the clock readings of two
\* consecutive cycles no (day, trigger hour) is passed over.
Earlier(d1, h1, d2, h2) == d1 < d2 \/ (d1 = d2 /\ h1 < h2)
C13_NoTriggerHourSkipped ==
    [][(pc = "now" /\ today_str >= 1) =>
         ~(\E d \in 1 .. MaxDay, s \in Slots :
              /\ Earlier(today_str, current_hour, d, ClaimedHour(s))
              /\ Earlier(d, ClaimedHour(s), today_str', current_hour'))]_vars

\* C15: each of the three external calls carries a timeout, so a
\* collaborator that does not answer cannot keep the cycle from the sleep
\* step: a cycle that is in a fetch, transform or delivery call reaches the
\* sleep step.
C15_StalledCallCannotHoldCycle ==
    (pc \in {"fetch", "transform", "send"}) ~> (pc = "sleep")

\* C14: inside a cycle the steps come in the order fetch, transform,
\* delivery, insertion: a delivery call is made only after a fetch that
\* returned a record with a temperature and after a transform attempt of
\* the same cycle, and the key is inserted only after a delivery call of the
\* same cycle.
C14_StepsInOrder ==
    /\ cyc.transform >= 1 =>
          (cyc.fetch >= 1 /\ weather # None /\ weather[1]["temperature"] = "float")
    /\ cyc.deliver >= 1 => cyc.transform >= 1
    /\ cyc.insert >= 1 => cyc.deliver >= 1
    /\ pc = "mark" => cyc.deliver >= 1
\* a cycle went through all four steps
C14_Witness ==
    /\ pc = "prune" /\ cyc.fetch = 1 /\ cyc.transform = 1 /\ cyc.deliver = 1
    /\ cyc.insert = 1 /\ slot = "morning" /\ ~send_ok

\* C16: for each (day, slot) at most one delivery call is acknowledged as
\* successful, because an acknowledged delivery is followed in the same
\* cycle by the insertion of the slot's key, the step right after it.
C16_AtMostOneAckedDelivery ==
    \A s \in Slots :
       /\ day.acked[s] <= 1
       /\ day.acked[s] >= 1 =>
             \/ TodayKey(s) \in sent_notifications
             \/ (pc = "mark" /\ slot = s /\ send_ok)
\* a failed delivery was followed, in a later cycle, by an acknowledged one
C16_Witness ==
    /\ CycleOver /\ day.delivered["morning"] = 2 /\ day.acked["morning"] = 1
    /\ current_hour = 9

\* C17: a cycle whose fetch fails (no record, or a record without a
\* temperature) or whose error is caught at the loop boundary inserts no
\* key: the slot's key for the date stays absent, and the next cycle that
\* reads the same date and hour begins the slot's dispatch again.
C17_AbandonedSlotIsRetried ==
    /\ []((cyc.fetch >= 1
            /\ (weather = None \/ weather[1]["temperature"] = "None" \/ cyc.error))
          => (cyc.insert = 0 /\ TodayKey(slot) \notin sent_notifications))
    /\ [][(pc = "eval" /\ cyc.retry \in Slots)
            => (pc' = "fetch" /\ slot' = cyc.retry)]_vars
\* the evening dispatch starts again in the cycle after an errored one
C17_Witness ==
    /\ pc = "fetch" /\ slot = "evening" /\ cyc.retry = "evening" /\ cyc.fetch = 0

C19_OneOfEachPerCycle ==
    /\ [](cyc.fetch <= 1 /\ cyc.transform <= 1 /\ cyc.gemini <= 1
          /\ cyc.deliver <= 1 /\ cyc.insert <= 1)
    /\ [][(pc \in {"fetch", "transform", "format", "send", "mark", "prune",
                   "except", "sleep"}) => (slot' = slot)]_vars
    /\ [][(pc = "mark") => (pc' = "prune")]_vars
\* a cycle ended after its one delivery call failed
C19_Witness ==
    /\ CycleOver /\ cyc.deliver = 1 /\ ~send_ok /\ cyc.insert = 0
    /\ recommendation = "text"
====
